---- MODULE Spec2Model ----
(***************************************************************************)
(* A model of the resolution/merge core of schematic:                      *)
(*   - Source::new / Source::url / Source::file / Source::code             *)
(*     (crates/config/src/source.rs)                                       *)
(*   - merge_setting / merge_partial_setting / partialize_schema           *)
(*     (crates/schematic/src/internal.rs)                                  *)
(*   - the generated PartialConfig methods and Config::extends_from        *)
(*     (crates/macros/src/config/config.rs)                                *)
(*   - create_span and the three format parsers                            *)
(*     (crates/config/src/parser.rs, crates/config/src/parsers/*.rs)       *)
(*                                                                         *)
(* Strings are sequences of one-character strings, so that starts_with,    *)
(* ends_with, contains, strip_prefix and format! are computed on the       *)
(* characters.  Paths follow the Unix rules of std::path.                  *)
(***************************************************************************)
EXTENDS Naturals, Integers, Sequences, FiniteSets, TLC

VARIABLES
    \* ---- Source (source.rs) ----
    src_call,        \* which constructor was called last: "none", "new", "url"
    value,           \* the `value` / `url` argument
    parent_source,   \* the `parent_source` argument (NoSource models Option::None)
    src_result,      \* what the call produced
    \* ---- merge_setting / merge_partial_setting (internal.rs) ----
    mrg_call,        \* "none", "merge_setting", "merge_partial_setting" or "merge"
    mrg_prev,        \* the `prev` argument, an Option
    mrg_next,        \* the `next` argument, an Option
    mrg_context,     \* the `context` argument
    mrg_merger,      \* the `merger` argument (a merge policy)
    mrg_result,      \* the Result the call returned
    mrg_invoked,     \* the policy invocations the call made, in order
    mrg_policy,      \* the merge policy of each setting of the partial's schema
    mrg_a,           \* a partial config, `self` of a.merge(context, b)
    mrg_b,           \* a partial config, `self` of b.merge(context, a)
    mrg_ab,          \* the Result of a.merge(context, b), with a as it was left
    mrg_ba,          \* the Result of b.merge(context, a), with b as it was left
    \* ---- the generated PartialConfig::finalize (config.rs) ----
    fin_pc,          \* the line of finalize about to run, "idle", "done",
                     \* "env_changed" or "again" (finalize has returned twice)
    fin_schema,      \* the schema: merge policies, defaults, failing default fn
    fin_self,        \* the `self` argument, the caller-provided partial
    fin_context,     \* the `context` argument
    fin_env,         \* the process environment: setting -> variable value
    fin_partial,     \* the local `partial`
    fin_log,         \* the calls finalize has made so far, in order
    fin_result,      \* the Result finalize returned
    fin_first,       \* the Result of the first call, once a second was made
    fin_env_before,  \* the process environment the first call ran in
    \* ---- the format parsers (parsers/*.rs, parser.rs) ----
    prs_format,      \* "none", "json", "toml" or "yaml"
    prs_content,     \* the text given to parse
    prs_failure,     \* what the decoder reported: stage and location
    prs_result,      \* Ok, or the ParserError's span
    \* ---- the generated PartialConfig::validate_with_path (config.rs) ----
    val_call,        \* "none" or "validate_with_path"
    val_self,        \* the partial config validated (`self`)
    val_path,        \* the `path` argument
    val_evaluated,   \* the settings whose validation statement ran, in order
    val_result,      \* the Result returned
    \* ---- Config::extends_from and the generated extends_from (config.rs) ----
    ext_pc,          \* "none", "generated", "aborted" or "called"
    ext_settings,    \* the settings of the schema, in declaration order
    ext_code,        \* the tokens Config::extends_from emitted: the field reads
    ext_self,        \* the partial the generated extends_from is called on
    ext_result,      \* the Option<ExtendsFrom> it returned
    \* ---- partialize_schema (internal.rs) ----
    sch_pc,          \* "none", "once" (partialized) or "twice" (partialized again)
    sch_input,       \* the schema tree before the first call
    sch_force,       \* the `force_partial` argument of the first call
    sch_first,       \* the schema tree after the first call
    sch_force2,      \* the `force_partial` argument of the second call
    sch_schema       \* the schema tree now (`schema`, mutated in place)

srcVars == <<src_call, value, parent_source, src_result>>
mrgVars == <<mrg_call, mrg_prev, mrg_next, mrg_context, mrg_merger, mrg_result, mrg_invoked,
             mrg_policy, mrg_a, mrg_b, mrg_ab, mrg_ba>>

finVars == <<fin_pc, fin_schema, fin_self, fin_context, fin_env, fin_partial, fin_log,
             fin_result, fin_first, fin_env_before>>

prsVars == <<prs_format, prs_content, prs_failure, prs_result>>

valVars == <<val_call, val_self, val_path, val_evaluated, val_result>>

extVars == <<ext_pc, ext_settings, ext_code, ext_self, ext_result>>

schVars == <<sch_pc, sch_input, sch_force, sch_first, sch_force2, sch_schema>>

vars == <<srcVars, mrgVars, finVars, prsVars, valVars, extVars, schVars>>

(***************************************************************************)
(* Strings                                                                 *)
(***************************************************************************)
S_https    == <<"h","t","t","p","s",":","/","/">>
S_http     == <<"h","t","t","p",":","/","/">>
S_www      == <<"w","w","w">>
S_file     == <<"f","i","l","e",":","/","/">>
S_slash    == <<"/">>
S_bslash   == <<"\\">>
S_dot      == <<".">>
S_json     == <<".","j","s","o","n">>
S_toml     == <<".","t","o","m","l">>
S_yaml     == <<".","y","a","m","l">>
S_yml      == <<".","y","m","l">>
S_txt      == <<".","t","x","t">>
S_a        == <<"a">>
S_empty    == <<>>

\* str::starts_with
StartsWith(s, p) ==
    /\ Len(s) >= Len(p)
    /\ SubSeq(s, 1, Len(p)) = p

\* str::ends_with
EndsWith(s, p) ==
    /\ Len(s) >= Len(p)
    /\ SubSeq(s, Len(s) - Len(p) + 1, Len(s)) = p

\* str::contains(char)
Contains(s, c) == \E i \in 1..Len(s) : s[i] = c

\* str::strip_prefix: the rest of s after p (only used when StartsWith(s, p))
StripPrefix(s, p) == SubSeq(s, Len(p) + 1, Len(s))

(***************************************************************************)
(* Source                                                                  *)
(***************************************************************************)
\* enum Source; `payload` is the code, path or url (empty for Defaults, Env)
SourceCode(code) == [type |-> "Code", payload |-> code]
SourceDefaults   == [type |-> "Defaults", payload |-> S_empty]
SourceEnv        == [type |-> "Env", payload |-> S_empty]
SourceFile(path) == [type |-> "File", payload |-> path]
SourceUrl(url)   == [type |-> "Url", payload |-> url]
\* Option::None for `parent_source`, and the source slot of a failed result
NoSource         == [type |-> "None", payload |-> S_empty]

\* Result<Source, ConfigError>, or the panic of an unwrap() on None
Ok(source)  == [kind |-> "Ok", source |-> source, error |-> "none"]
Err(error)  == [kind |-> "Err", source |-> NoSource, error |-> error]
Panic       == [kind |-> "Panic", source |-> NoSource, error |-> "none"]
NotCalled   == [kind |-> "NotCalled", source |-> NoSource, error |-> "none"]

is_file_like(v) ==
    \/ StartsWith(v, S_file)
    \/ StartsWith(v, S_slash)
    \/ StartsWith(v, S_bslash)
    \/ StartsWith(v, S_dot)
    \/ Contains(v, "/")
    \/ Contains(v, "\\")
    \/ EndsWith(v, S_json)
    \/ EndsWith(v, S_toml)
    \/ EndsWith(v, S_yaml)
    \/ EndsWith(v, S_yml)

is_url_like(v) ==
    \/ StartsWith(v, S_https)
    \/ StartsWith(v, S_http)
    \/ StartsWith(v, S_www)

\* Source::code (TryInto<String> from &str cannot fail)
Source_code(code) == Ok(SourceCode(code))

\* Source::file (TryInto<PathBuf> from &str / PathBuf cannot fail)
Source_file(path) == Ok(SourceFile(path))

\* Source::url without the scheme check
Source_url_AnyScheme(url) == Ok(SourceUrl(url))

\* Source::url
Source_url(url) ==
    IF ~StartsWith(url, S_https)
    THEN Err("HttpsOnly")
    ELSE Ok(SourceUrl(url))

\* Path::has_root (Unix: the path begins with the separator)
has_root(path) == StartsWith(path, S_slash)

\* index of the last "/" of a path, 0 when there is none
LastSlash(path) ==
    IF Contains(path, "/")
    THEN CHOOSE i \in 1..Len(path) :
            /\ path[i] = "/"
            /\ \A j \in (i+1)..Len(path) : path[j] # "/"
    ELSE 0

\* Path::parent is None when the path is empty or terminates in the root
parent_is_none(path) == path = S_empty \/ path = S_slash

\* Path::parent, for a path with a parent (paths without trailing separator)
parent_of(path) ==
    IF LastSlash(path) = 0 THEN S_empty
    ELSE IF LastSlash(path) = 1 THEN S_slash
    ELSE SubSeq(path, 1, LastSlash(path) - 1)

\* Path::join -> PathBuf::push
join(base, path) ==
    IF has_root(path) THEN path
    ELSE IF base # S_empty /\ base[Len(base)] # "/" THEN base \o S_slash \o path
    ELSE base \o path

\* Source::new
Source_new(v, parent) ==
    IF is_url_like(v) THEN Source_url(v)
    ELSE IF is_file_like(v) THEN
        LET stripped == IF StartsWith(v, S_file) THEN StripPrefix(v, S_file) ELSE v
        IN  IF parent = NoSource THEN Source_file(stripped)
            ELSE IF parent.type = "File" THEN
                IF ~has_root(stripped)
                THEN IF parent_is_none(parent.payload)
                     THEN Panic
                     ELSE Source_file(join(parent_of(parent.payload), stripped))
                ELSE Source_file(stripped)
            ELSE Err("ExtendsFromParentFileOnly")
    ELSE Source_code(v)

(***************************************************************************)
(* Inputs of the Source constructors                                       *)
(***************************************************************************)
MaxBodyLen == 1

BodyChars == {"a", "/", "\\", "."}

RECURSIVE SeqsUpTo(_, _)
SeqsUpTo(S, n) ==
    IF n = 0 THEN {S_empty}
    ELSE LET shorter == SeqsUpTo(S, n - 1)
         IN  shorter \cup {Append(s, c) : s \in shorter, c \in S}

Prefixes == {S_empty, S_a, S_https, S_http, S_www, S_file, S_slash, S_bslash, S_dot}
Suffixes == {S_empty, S_json, S_toml, S_yaml, S_yml, S_txt}

Values == {p \o b \o s : p \in Prefixes, b \in SeqsUpTo(BodyChars, MaxBodyLen), s \in Suffixes}

P_root == S_slash
P_rel  == <<"c",".","y","m","l">>
P_abs  == <<"/","c",".","y","m","l">>
P_deep == <<"/","d","/","c",".","y","m","l">>
P_reld == <<"d","/","c",".","y","m","l">>

ParentPaths == {S_empty, P_root, P_rel, P_abs, P_deep, P_reld}

Parents ==
    {NoSource, SourceCode(<<"x">>), SourceDefaults, SourceEnv,
     SourceUrl(S_https \o <<"h">>)}
    \cup {SourceFile(p) : p \in ParentPaths}

SourceInit ==
    /\ src_call = "none"
    /\ value = S_empty
    /\ parent_source = NoSource
    /\ src_result = NotCalled

\* a caller invokes Source::new(value, parent_source); each behaviour is one call
CallSourceNew ==
    /\ src_call = "none"
    /\ \E v \in Values, p \in Parents :
        /\ src_call' = "new"
        /\ value' = v
        /\ parent_source' = p
        /\ src_result' = Source_new(v, p)

\* a caller invokes Source::url(value)
CallSourceUrl ==
    /\ src_call = "none"
    /\ \E v \in Values :
        /\ src_call' = "url"
        /\ value' = v
        /\ parent_source' = NoSource
        /\ src_result' = Source_url(v)

SourceNext == CallSourceNew \/ CallSourceUrl

(***************************************************************************)
(* Option, Result and the merge helpers of internal.rs                     *)
(***************************************************************************)
\* Option<T>: None is the empty sequence, Some(v) the one-element sequence
None        == <<>>
Some(v)     == <<v>>
is_some(o)  == Len(o) = 1
unwrap(o)   == o[1]

\* Result<Option<T>, HandlerError>
OkOpt(o)    == [kind |-> "Ok", opt |-> o]
ErrHandler  == [kind |-> "Err", opt |-> None]

MaxListLen == 1
MaxContext == 1

\* setting values are lists, so that a policy can concatenate
Elems       == {1, 2}
SettingVals == SeqsUpTo(Elems, MaxListLen)
Options(S)  == {None} \cup {Some(v) : v \in S}
Contexts    == 0..MaxContext

\* the policies a `merger` argument can be: keep left, take right, drop,
\* concatenate, reject, or decide by the context
Mergers == {"replace", "preserve", "discard", "append", "reject", "by_context"}

\* merger(prev, next, context)
ApplyMerger(merger, p, n, context) ==
    CASE merger = "replace"    -> OkOpt(Some(n))
      [] merger = "preserve"   -> OkOpt(Some(p))
      [] merger = "discard"    -> OkOpt(None)
      [] merger = "append"     -> OkOpt(Some(p \o n))
      [] merger = "reject"     -> ErrHandler
      [] merger = "by_context" -> IF context = 0 THEN OkOpt(Some(p)) ELSE OkOpt(Some(n))

\* merge_setting with the both-present test dropped
merge_setting_NextWins(prev, next, context, merger) ==
    IF is_some(next)
    THEN [result |-> OkOpt(next), invoked |-> <<>>]
    ELSE [result |-> OkOpt(prev), invoked |-> <<>>]

\* merge_setting returning `next` whatever is present
merge_setting_NextOnly(prev, next, context, merger) ==
    [result |-> OkOpt(next), invoked |-> <<>>]

\* merge_setting: the Result, and the merger invocations made on the way
merge_setting(prev, next, context, merger) ==
    IF is_some(prev) /\ is_some(next)
    THEN [result  |-> ApplyMerger(merger, unwrap(prev), unwrap(next), context),
          invoked |-> << <<unwrap(prev), unwrap(next), context>> >>]
    ELSE IF is_some(next)
    THEN [result |-> OkOpt(next), invoked |-> <<>>]
    ELSE [result |-> OkOpt(prev), invoked |-> <<>>]

(***************************************************************************)
(* A partial config: one Option per setting, each setting with its policy  *)
(***************************************************************************)
Settings == {"a", "b"}

Partials == [Settings -> Options(SettingVals)]
EmptyPartial == [f \in Settings |-> None]

\* Result<Self, ConfigError>
OkPartial(p) == [kind |-> "Ok", partial |-> p]
ErrConfig    == [kind |-> "Err", partial |-> EmptyPartial]

\* the generated merge(&mut self, context, next): one merge statement per
\* setting with the setting's policy, `?` on each
PartialConfig_merge(policy, self, context, next) ==
    LET r(f) == merge_setting(self[f], next[f], context, policy[f]).result
    IN  IF \E f \in Settings : r(f).kind = "Err"
        THEN ErrConfig
        ELSE OkPartial([f \in Settings |-> r(f).opt])

\* the policies of the nested config type merge_partial_setting is used with
NestedPolicy == [f \in Settings |-> IF f = "a" THEN "replace" ELSE "append"]

\* merge_partial(prev, next, context): merge next into prev, return Some(prev)
merge_partial(p, n, context) ==
    LET m == PartialConfig_merge(NestedPolicy, p, context, n)
    IN  IF m.kind = "Err" THEN ErrHandler ELSE OkOpt(Some(m.partial))

\* merge_partial_setting
merge_partial_setting(prev, next, context) ==
    IF is_some(prev) /\ is_some(next)
    THEN [result  |-> merge_partial(unwrap(prev), unwrap(next), context),
          invoked |-> << <<unwrap(prev), unwrap(next), context>> >>]
    ELSE IF is_some(next)
    THEN [result |-> OkOpt(next), invoked |-> <<>>]
    ELSE [result |-> OkOpt(prev), invoked |-> <<>>]

\* the merge policies a schema declares: setting a has the policy of a
\* setting that declares none, setting b any of these
SchemaPolicies == {[f \in Settings |-> IF f = "a" THEN "replace" ELSE m] :
                      m \in {"replace", "preserve", "append", "reject"}}

MergeInit ==
    /\ mrg_call = "none"
    /\ mrg_prev = None
    /\ mrg_next = None
    /\ mrg_context = 0
    /\ mrg_merger = "replace"
    /\ mrg_result = OkOpt(None)
    /\ mrg_invoked = <<>>
    /\ mrg_policy = [f \in Settings |-> "replace"]
    /\ mrg_a = EmptyPartial
    /\ mrg_b = EmptyPartial
    /\ mrg_ab = OkPartial(EmptyPartial)
    /\ mrg_ba = OkPartial(EmptyPartial)

\* a generated merge statement calls merge_setting(prev, next, context, merger)
CallMergeSetting ==
    /\ mrg_call = "none"
    /\ \E p \in Options(SettingVals), n \in Options(SettingVals),
          c \in Contexts, m \in Mergers :
        /\ mrg_call' = "merge_setting"
        /\ mrg_prev' = p
        /\ mrg_next' = n
        /\ mrg_context' = c
        /\ mrg_merger' = m
        /\ mrg_result' = merge_setting(p, n, c, m).result
        /\ mrg_invoked' = merge_setting(p, n, c, m).invoked
        /\ UNCHANGED <<mrg_policy, mrg_a, mrg_b, mrg_ab, mrg_ba>>

\* a generated merge statement of a nested setting calls merge_partial_setting
CallMergePartialSetting ==
    /\ mrg_call = "none"
    /\ \E p \in Options(Partials), n \in Options(Partials), c \in Contexts :
        /\ mrg_call' = "merge_partial_setting"
        /\ mrg_prev' = p
        /\ mrg_next' = n
        /\ mrg_context' = c
        /\ mrg_merger' = "merge_partial"
        /\ mrg_result' = merge_partial_setting(p, n, c).result
        /\ mrg_invoked' = merge_partial_setting(p, n, c).invoked
        /\ UNCHANGED <<mrg_policy, mrg_a, mrg_b, mrg_ab, mrg_ba>>

\* two partials of one schema are merged both ways, each into a clone of
\* the other: a.merge(context, b) and b.merge(context, a)
CallMerge ==
    /\ mrg_call = "none"
    /\ \E policy \in SchemaPolicies, a \in Partials, b \in Partials, c \in Contexts :
        /\ mrg_call' = "merge"
        /\ mrg_policy' = policy
        /\ mrg_a' = a
        /\ mrg_b' = b
        /\ mrg_context' = c
        /\ mrg_ab' = PartialConfig_merge(policy, a, c, b)
        /\ mrg_ba' = PartialConfig_merge(policy, b, c, a)
        /\ UNCHANGED <<mrg_prev, mrg_next, mrg_merger, mrg_result, mrg_invoked>>

MergeNext == CallMergeSetting \/ CallMergePartialSetting \/ CallMerge

(***************************************************************************)
(* The generated PartialConfig::finalize, line by line                     *)
(***************************************************************************)
\* a schema: per setting its merge policy and whether it declares a default,
\* and whether a default function fails
Schemas ==
    [policy : SchemaPolicies, defaulted : SUBSET Settings, default_fails : BOOLEAN]

\* default_values(context): the declared defaults, computed from the context
default_values(schema, context) ==
    IF schema.default_fails THEN ErrConfig
    ELSE OkPartial([f \in Settings |->
            IF f \in schema.defaulted THEN Some(<<context + 1>>) ELSE None])

\* the process environment: per setting, its variable is unset or holds text
NoVar   == "unset"
EnvText == {"2", "x"}
Envs    == [Settings -> {NoVar} \cup EnvText]

\* parse_value: str::parse of the text of a variable
parse_value(text) ==
    IF text = "2" THEN [kind |-> "Ok", opt |-> Some(<<2>>)]
    ELSE ErrHandler

\* parse_from_env_var(key, parser) with the environment's answer for key
parse_from_env_var(var) ==
    IF var # NoVar
    THEN parse_value(var)
    ELSE OkOpt(None)

\* env_values(): Self::default(), then one env statement per setting, `?` on each
env_values(env) ==
    IF \E f \in Settings : parse_from_env_var(env[f]).kind = "Err"
    THEN ErrConfig
    ELSE OkPartial([f \in Settings |-> parse_from_env_var(env[f]).opt])

\* line 250 with receiver and argument exchanged
finalize_merge_self_Swapped(schema, partial, context, self) ==
    PartialConfig_merge(schema.policy, self, context, partial)

\* line 250: partial.merge(context, self)
finalize_merge_self(schema, partial, context, self) ==
    PartialConfig_merge(schema.policy, partial, context, self)

\* line 251: partial.merge(context, Self::env_values()?)
finalize_merge_env(schema, partial, context, envs) ==
    PartialConfig_merge(schema.policy, partial, context, envs)

\* line 252: the finalize statements; a setting that is not a nested config
\* has none
finalize_stmts(schema, partial, context) == OkPartial(partial)

FinalizeInit ==
    /\ fin_pc = "idle"
    /\ fin_schema = [policy |-> [f \in Settings |-> "replace"], defaulted |-> {},
                     default_fails |-> FALSE]
    /\ fin_self = EmptyPartial
    /\ fin_context = 0
    /\ fin_env = [f \in Settings |-> NoVar]
    /\ fin_partial = EmptyPartial
    /\ fin_log = <<>>
    /\ fin_result = [kind |-> "none", partial |-> EmptyPartial]
    /\ fin_first = [kind |-> "none", partial |-> EmptyPartial]
    /\ fin_env_before = [f \in Settings |-> NoVar]

\* a caller invokes finalize(self, context) for a schema, in an environment
FinalizeCall ==
    /\ fin_pc = "idle"
    /\ \E sc \in Schemas, p \in Partials, c \in Contexts, e \in Envs :
        /\ fin_pc' = "line249"
        /\ fin_schema' = sc
        /\ fin_self' = p
        /\ fin_context' = c
        /\ fin_env' = e
        /\ fin_env_before' = e
        /\ UNCHANGED <<fin_partial, fin_log, fin_result, fin_first>>

\* a `?` that hit an Err: finalize returns it
FinalizeFail(step) ==
    /\ fin_pc' = "done"
    /\ fin_log' = Append(fin_log, step)
    /\ fin_result' = ErrConfig
    /\ UNCHANGED <<fin_partial>>

FinalizeStep(step, r, pc) ==
    /\ UNCHANGED <<fin_schema, fin_self, fin_context, fin_env, fin_first, fin_env_before>>
    /\ IF r.kind = "Err"
       THEN FinalizeFail(step)
       ELSE /\ fin_pc' = pc
            /\ fin_log' = Append(fin_log, step)
            /\ fin_partial' = r.partial
            /\ UNCHANGED <<fin_result>>

\* let mut partial = Self::default_values(context)?;
FinalizeDefaults ==
    /\ fin_pc = "line249"
    /\ FinalizeStep("default_values", default_values(fin_schema, fin_context), "line250")

\* partial.merge(context, self)?;
FinalizeMergeSelf ==
    /\ fin_pc = "line250"
    /\ FinalizeStep("merge_self",
                    finalize_merge_self(fin_schema, fin_partial, fin_context, fin_self),
                    "line251")

\* partial.merge(context, Self::env_values()?)?;
FinalizeMergeEnv ==
    /\ fin_pc = "line251"
    /\ IF env_values(fin_env).kind = "Err"
       THEN FinalizeStep("env_values", ErrConfig, "done")
       ELSE FinalizeStep("merge_env",
                         finalize_merge_env(fin_schema, fin_partial, fin_context,
                                            env_values(fin_env).partial),
                         "line252")

\* #(#finalize_stmts)*
FinalizeStmts ==
    /\ fin_pc = "line252"
    /\ FinalizeStep("finalize_stmts",
                    finalize_stmts(fin_schema, fin_partial, fin_context), "line253")

\* Ok(partial)
FinalizeReturn ==
    /\ fin_pc = "line253"
    /\ fin_pc' = "done"
    /\ fin_result' = OkPartial(fin_partial)
    /\ UNCHANGED <<fin_schema, fin_self, fin_context, fin_env, fin_partial, fin_log,
                   fin_first, fin_env_before>>

\* finalize with the caller's partial layered first, the defaults over it
finalize_SelfFirst(schema, self, context, env) ==
    LET defaults == default_values(schema, context)
    IN  IF defaults.kind = "Err" THEN ErrConfig
        ELSE LET merged == finalize_merge_self(schema, self, context, defaults.partial)
                 envs   == env_values(env)
             IN  IF merged.kind = "Err" \/ envs.kind = "Err" THEN ErrConfig
                 ELSE LET layered == finalize_merge_env(schema, merged.partial, context,
                                                        envs.partial)
                      IN  IF layered.kind = "Err" THEN ErrConfig
                          ELSE finalize_stmts(schema, layered.partial, context)

\* finalize(self, context) as one call, in the environment env: lines 249
\* to 253, each `?` returning the Err
finalize(schema, self, context, env) ==
    LET defaults == default_values(schema, context)
    IN  IF defaults.kind = "Err" THEN ErrConfig
        ELSE LET merged == finalize_merge_self(schema, defaults.partial, context, self)
                 envs   == env_values(env)
             IN  IF merged.kind = "Err" \/ envs.kind = "Err" THEN ErrConfig
                 ELSE LET layered == finalize_merge_env(schema, merged.partial, context,
                                                        envs.partial)
                      IN  IF layered.kind = "Err" THEN ErrConfig
                          ELSE finalize_stmts(schema, layered.partial, context)

\* between two calls the process sets or removes one environment variable
\* (std::env::set_var, std::env::remove_var), which env::var reads at line 19
\* of internal.rs
SetEnvVar ==
    /\ fin_pc = "done"
    /\ \E f \in Settings : \E text \in ({NoVar} \cup EnvText) \ {fin_env[f]} :
        /\ fin_env' = [fin_env EXCEPT ![f] = text]
        /\ fin_pc' = "env_changed"
        /\ UNCHANGED <<fin_schema, fin_self, fin_context, fin_partial, fin_log, fin_result,
                       fin_first, fin_env_before>>

\* finalize is called a second time, on an equal partial with an equal context
FinalizeAgain ==
    /\ fin_pc \in {"done", "env_changed"}
    /\ fin_pc' = "again"
    /\ fin_first' = fin_result
    /\ fin_result' = finalize(fin_schema, fin_self, fin_context, fin_env)
    /\ UNCHANGED <<fin_schema, fin_self, fin_context, fin_env, fin_partial, fin_log,
                   fin_env_before>>

FinalizeNext ==
    \/ FinalizeCall
    \/ FinalizeDefaults
    \/ FinalizeMergeSelf
    \/ FinalizeMergeEnv
    \/ FinalizeStmts
    \/ FinalizeReturn
    \/ SetEnvVar
    \/ FinalizeAgain

(***************************************************************************)
(* Spans and the format parsers                                            *)
(***************************************************************************)
MaxContentLen == 3
MaxLine == 2
MaxColumn == 2

ContentChars == {"a", "\n"}
Contents == SeqsUpTo(ContentChars, MaxContentLen)

\* SourceSpan: (offset, length).into()
SourceSpan(offset, length) == [offset |-> offset, length |-> length]

\* SourceSpan from a Range<usize>: its start and its len()
SpanOfRange(range) == SourceSpan(range.start, range.end - range.start)

\* SourceOffset::from_location: walk the text until the 1-based line and
\* column are reached, counting the bytes passed
RECURSIVE from_location_walk(_, _, _, _, _, _)
from_location_walk(content, loc_line, loc_col, i, line, col) ==
    IF i > Len(content) THEN i - 1
    ELSE IF line + 1 >= loc_line /\ col + 1 >= loc_col THEN i - 1
    ELSE IF content[i] = "\n"
         THEN from_location_walk(content, loc_line, loc_col, i + 1, line + 1, 0)
         ELSE from_location_walk(content, loc_line, loc_col, i + 1, line, col + 1)

from_location(content, loc_line, loc_col) ==
    from_location_walk(content, loc_line, loc_col, 1, 0, 0)

\* create_span
create_span(content, line, column) ==
    SourceSpan(from_location(content, line, column), 0)

\* what a decoder reports: no failure, or a failure of a stage with the
\* location the decoder gives for it (a line and column, a byte range, or none)
NoLocation == [at |-> "none", line |-> 0, column |-> 0, start |-> 0, end |-> 0]
LineColumn(l, c) == [at |-> "linecol", line |-> l, column |-> c, start |-> 0, end |-> 0]
ByteRange(a, b)  == [at |-> "range", line |-> 0, column |-> 0, start |-> a, end |-> b]

Decoded == [stage |-> "ok", loc |-> NoLocation]
Failure(stage, loc) == [stage |-> stage, loc |-> loc]

LineColumns == {LineColumn(l, c) : l \in 0..MaxLine, c \in 0..MaxColumn}
\* Result<T, ParserError>; of the error only the span is kept
ParsedOk      == [kind |-> "Ok", span |-> None]
ParserError(span) == [kind |-> "Err", span |-> span]

\* JsonParser::parse
JsonParser_parse(content, outcome) ==
    IF outcome.stage = "ok" THEN ParsedOk
    ELSE ParserError(Some(create_span(content, outcome.loc.line, outcome.loc.column)))

\* TomlParser::parse
TomlParser_parse(content, outcome) ==
    IF outcome.stage = "ok" THEN ParsedOk
    ELSE ParserError(IF outcome.loc.at = "none" THEN None
                     ELSE Some(SpanOfRange(outcome.loc)))

\* YamlParser::parse: pass 1, apply_merge, pass 2
YamlParser_parse(content, outcome) ==
    CASE outcome.stage = "ok" -> ParsedOk
      [] outcome.stage = "pass1" ->
            ParserError(IF outcome.loc.at = "none" THEN None
                        ELSE Some(create_span(content, outcome.loc.line, outcome.loc.column)))
      [] outcome.stage = "apply_merge" ->
            ParserError(IF outcome.loc.at = "none" THEN None
                        ELSE Some(SourceSpan(outcome.loc.line, outcome.loc.column)))
      [] outcome.stage = "pass2" ->
            ParserError(IF outcome.loc.at = "none" THEN None
                        ELSE Some(create_span(content, outcome.loc.line, outcome.loc.column)))

ParserInit ==
    /\ prs_format = "none"
    /\ prs_content = S_empty
    /\ prs_failure = Decoded
    /\ prs_result = ParsedOk

\* serde_json decodes, or fails at a line and column
ParseJson ==
    /\ prs_format = "none"
    /\ \E c \in Contents, o \in {Decoded} \cup {Failure("decode", l) : l \in LineColumns} :
        /\ prs_format' = "json"
        /\ prs_content' = c
        /\ prs_failure' = o
        /\ prs_result' = JsonParser_parse(c, o)

\* toml decodes, or fails with a byte range of the text or with no span
ParseToml ==
    /\ prs_format = "none"
    /\ \E c \in Contents :
       \E o \in {Decoded, Failure("decode", NoLocation)}
                 \cup {Failure("decode", ByteRange(a, b)) : a \in 0..Len(c), b \in 0..Len(c)} :
        /\ o.loc.start <= o.loc.end
        /\ prs_format' = "toml"
        /\ prs_content' = c
        /\ prs_failure' = o
        /\ prs_result' = TomlParser_parse(c, o)

\* serde_yaml decodes, or one of the three stages fails, with a line and
\* column or with no location
ParseYaml ==
    /\ prs_format = "none"
    /\ \E c \in Contents :
       \E o \in {Decoded} \cup
                {Failure(st, l) : st \in {"pass1", "apply_merge", "pass2"},
                                  l \in {NoLocation} \cup LineColumns} :
        /\ prs_format' = "yaml"
        /\ prs_content' = c
        /\ prs_failure' = o
        /\ prs_result' = YamlParser_parse(c, o)

ParserNext == ParseJson \/ ParseToml \/ ParseYaml

(***************************************************************************)
(* The generated PartialConfig::validate_with_path                         *)
(***************************************************************************)
\* a config with two validated settings and a nested config of two more
LeafSettings   == <<"a", "b">>
NestedSetting  == "n"
LeafValues     == {0, 1}
NestedConfigs  == [a : Options(LeafValues), b : Options(LeafValues)]
RootConfigs    == [a : Options(LeafValues), b : Options(LeafValues),
                   n : Options(NestedConfigs)]
Paths          == {<<>>, <<"root">>}

\* the validator of a setting: a rule on its value (here: not zero)
validator(v) == v # 0

\* ValidateErrorType::setting(path, error) and ::nested(error)
SettingError(path) == [kind |-> "setting", path |-> path, errors |-> <<>>]
NestedError(inner) == [kind |-> "nested", path |-> inner.path, errors |-> inner.errors]

\* Result<(), ValidatorError>
ValidOk == [kind |-> "Ok", errors |-> <<>>, path |-> <<>>]
ValidatorError(errors, path) == [kind |-> "Err", errors |-> errors, path |-> path]

\* the validation statement of a setting with a validator: a present value
\* the validator rejects pushes one error with the setting's path
validate_stmt(errors, name, setting, path) ==
    IF is_some(setting) /\ ~validator(unwrap(setting))
    THEN Append(errors, SettingError(Append(path, name)))
    ELSE errors

\* lines 274-281 returning on the first error only
validate_return_FirstOnly(errors, path) ==
    IF errors # <<>>
    THEN ValidatorError(<<errors[1]>>, path)
    ELSE ValidOk

\* lines 274-281: Err with all errors and the path, unless there is none
validate_return(errors, path) ==
    IF errors # <<>>
    THEN ValidatorError(errors, path)
    ELSE ValidOk

\* the validation statements of the leaf settings, in declaration order
RECURSIVE validate_leaves(_, _, _, _)
validate_leaves(errors, config, path, i) ==
    IF i > Len(LeafSettings) THEN errors
    ELSE validate_leaves(validate_stmt(errors, LeafSettings[i], config[LeafSettings[i]], path),
                         config, path, i + 1)

\* validate_with_path of the nested config type
validate_nested_config(config, path) ==
    validate_return(validate_leaves(<<>>, config, path, 1), path)

\* the validation statement of a nested setting: validate the nested config
\* under the joined path and push its error, if any
validate_nested_stmt(errors, name, setting, path) ==
    IF is_some(setting)
    THEN LET r == validate_nested_config(unwrap(setting), Append(path, name))
         IN  IF r.kind = "Err" THEN Append(errors, NestedError(r)) ELSE errors
    ELSE errors

\* validate_with_path of the root config type
validate_with_path(config, path) ==
    validate_return(
        validate_nested_stmt(validate_leaves(<<>>, config, path, 1),
                             NestedSetting, config[NestedSetting], path),
        path)

ValidateInit ==
    /\ val_call = "none"
    /\ val_self = [a |-> None, b |-> None, n |-> None]
    /\ val_path = <<>>
    /\ val_evaluated = <<>>
    /\ val_result = ValidOk

\* a caller invokes validate_with_path(&self, context, path)
CallValidate ==
    /\ val_call = "none"
    /\ \E c \in RootConfigs, p \in Paths :
        /\ val_call' = "validate_with_path"
        /\ val_self' = c
        /\ val_path' = p
        /\ val_evaluated' = LeafSettings \o <<NestedSetting>>
        /\ val_result' = validate_with_path(c, p)

ValidateNext == CallValidate

(***************************************************************************)
(* Config::extends_from (code generation) and the generated extends_from   *)
(***************************************************************************)
MaxSettings == 2

\* the inner type of a setting's value type as get_inner_type() and
\* to_token_stream() give it; "no_inner" is get_inner_type() == None
InnerTypes == {"no_inner", "String", "Vec<String>", "Vec < String >", "ExtendsFrom",
               "schematic::ExtendsFrom", "schematic :: ExtendsFrom", "u32"}

SettingDecls == [extendable : BOOLEAN, inner : InnerTypes]

SeqsOfLen(S, n) == [1..n -> S]
SchemaDecls == UNION {SeqsOfLen(SettingDecls, n) : n \in 0..MaxSettings}

\* the tokens emitted: what the generated body reads, or the abort of panic!
NoReads        == [kind |-> "Code", reads |-> <<>>]
ReadField(i, as) == [kind |-> "Code", reads |-> <<[field |-> i, as |-> as]>>]
Aborted        == [kind |-> "Abort", reads |-> <<>>]

\* lines 67-96: the match on the inner type's tokens
extends_match(i, inner) ==
    CASE inner = "String" -> ReadField(i, "String")
      [] inner \in {"Vec<String>", "Vec < String >"} -> ReadField(i, "List")
      [] inner \in {"ExtendsFrom", "schematic::ExtendsFrom", "schematic :: ExtendsFrom"}
            -> ReadField(i, "Itself")
      [] OTHER -> Aborted

\* lines 57-100: the second loop, from setting i on
RECURSIVE extends_loop(_, _)
extends_loop(settings, i) ==
    IF i > Len(settings) THEN NoReads
    ELSE IF ~settings[i].extendable THEN extends_loop(settings, i + 1)
    ELSE IF settings[i].inner # "no_inner" THEN extends_match(i, settings[i].inner)
    ELSE extends_loop(settings, i + 1)

\* lines 41-47: the names of the extendable settings
extendable_names(settings) == {i \in 1..Len(settings) : settings[i].extendable}

\* Config::extends_from
Config_extends_from(settings) ==
    IF Cardinality(extendable_names(settings)) > 1
    THEN Aborted
    ELSE extends_loop(settings, 1)

\* the values a setting of a partial can hold
FieldValues == {"v1", "v2"}

\* schematic::ExtendsFrom::String(v), ::List(v), or v itself
AsExtendsFrom(as, v) == [variant |-> as, value |-> v]

\* the generated extends_from(&self): the emitted read, then None
extends_from(code, self) ==
    IF code.reads # <<>> /\ is_some(self[code.reads[1].field])
    THEN Some(AsExtendsFrom(code.reads[1].as, unwrap(self[code.reads[1].field])))
    ELSE None

ExtendsInit ==
    /\ ext_pc = "none"
    /\ ext_settings = <<>>
    /\ ext_code = NoReads
    /\ ext_self = <<>>
    /\ ext_result = None

\* the derive macro expands a schema: Config::extends_from emits the body of
\* extends_from, or aborts the build
GenerateExtendsFrom ==
    /\ ext_pc = "none"
    /\ \E settings \in SchemaDecls :
        /\ ext_settings' = settings
        /\ ext_code' = Config_extends_from(settings)
        /\ ext_pc' = IF Config_extends_from(settings).kind = "Abort"
                     THEN "aborted" ELSE "generated"
        /\ UNCHANGED <<ext_self, ext_result>>

\* the generated extends_from is called on a partial of the schema
CallExtendsFrom ==
    /\ ext_pc = "generated"
    /\ \E self \in SeqsOfLen(Options(FieldValues), Len(ext_settings)) :
        /\ ext_self' = self
        /\ ext_result' = extends_from(ext_code, self)
        /\ ext_pc' = "called"
        /\ UNCHANGED <<ext_settings, ext_code>>

ExtendsNext == GenerateExtendsFrom \/ CallExtendsFrom

(***************************************************************************)
(* partialize_schema                                                       *)
(***************************************************************************)
MaxDepth == 2

S_Partial == <<"P","a","r","t","i","a","l">>

\* a Schema: its name, the kind of its SchemaType, the `partial` flag of a
\* StructType / UnionType, its own optional and nullable flags, and the
\* schemas below it (item, key and value, fields, items, variants)
Schema(name, ty, partial, children) ==
    [name |-> name, ty |-> ty, partial |-> partial, optional |-> FALSE,
     nullable |-> FALSE, children |-> children]

ScalarLeaf == Schema(None, "String", FALSE, <<>>)

TypeNames == {None, Some(<<"A">>), Some(S_Partial \o <<"A">>)}

\* the schemas that hold t directly
Wraps(t) ==
    {Schema(None, "Array", FALSE, <<t>>),
     Schema(None, "Object", FALSE, <<ScalarLeaf, t>>),
     Schema(None, "Tuple", FALSE, <<t, ScalarLeaf>>)}
    \cup {Schema(n, "Struct", p, <<[t EXCEPT !.optional = o], ScalarLeaf>>) :
             n \in TypeNames, p \in BOOLEAN, o \in BOOLEAN}
    \cup {Schema(n, "Union", p, <<t, ScalarLeaf>>) : n \in TypeNames, p \in BOOLEAN}

RECURSIVE SchemasUpTo(_)
SchemasUpTo(d) ==
    IF d = 0 THEN {ScalarLeaf}
    ELSE SchemasUpTo(d - 1) \cup UNION {Wraps(t) : t \in SchemasUpTo(d - 1)}

\* the closure update_name with the starts_with test dropped
update_name_Always(schema, update) ==
    IF update /\ schema.name # None
    THEN [schema EXCEPT !.name = Some(S_Partial \o unwrap(schema.name))]
    ELSE schema

\* the closure update_name: format!("Partial{name}") unless already so named
update_name(schema, update) ==
    IF update /\ schema.name # None /\ ~StartsWith(unwrap(schema.name), S_Partial)
    THEN [schema EXCEPT !.name = Some(S_Partial \o unwrap(schema.name))]
    ELSE schema

\* Schema::nullify: mark the schema nullable
nullify(field) == [field EXCEPT !.nullable = TRUE]

\* partialize_schema with a union handing force_partial on to its variants
RECURSIVE partialize_schema_UnionForces(_, _)
partialize_schema_UnionForces(schema, force_partial) ==
    CASE schema.ty \in {"Array", "Object", "Tuple"} ->
            [schema EXCEPT !.children =
                [i \in DOMAIN @ |-> partialize_schema_UnionForces(@[i], FALSE)]]
      [] schema.ty = "Struct" ->
            IF schema.partial \/ force_partial
            THEN [update_name(schema, TRUE) EXCEPT !.children =
                    [i \in DOMAIN @ |->
                        partialize_schema_UnionForces(
                            nullify([@[i] EXCEPT !.optional = TRUE]), TRUE)]]
            ELSE [schema EXCEPT !.children =
                    [i \in DOMAIN @ |-> partialize_schema_UnionForces(@[i], FALSE)]]
      [] schema.ty = "Union" ->
            [update_name(schema, schema.partial \/ force_partial) EXCEPT !.children =
                [i \in DOMAIN @ |-> partialize_schema_UnionForces(@[i], force_partial)]]
      [] OTHER -> schema

\* partialize_schema; the tree after the in-place update
RECURSIVE partialize_schema(_, _)
partialize_schema(schema, force_partial) ==
    CASE schema.ty = "Array" ->
            [schema EXCEPT !.children = <<partialize_schema(@[1], FALSE)>>]
      [] schema.ty = "Object" ->
            [schema EXCEPT !.children =
                <<partialize_schema(@[1], FALSE), partialize_schema(@[2], FALSE)>>]
      [] schema.ty = "Struct" ->
            IF schema.partial \/ force_partial
            THEN [update_name(schema, TRUE) EXCEPT !.children =
                    [i \in DOMAIN @ |->
                        partialize_schema(nullify([@[i] EXCEPT !.optional = TRUE]), TRUE)]]
            ELSE [schema EXCEPT !.children =
                    [i \in DOMAIN @ |-> partialize_schema(@[i], FALSE)]]
      [] schema.ty = "Tuple" ->
            [schema EXCEPT !.children =
                [i \in DOMAIN @ |-> partialize_schema(@[i], FALSE)]]
      [] schema.ty = "Union" ->
            [update_name(schema, schema.partial \/ force_partial) EXCEPT !.children =
                [i \in DOMAIN @ |-> partialize_schema(@[i], FALSE)]]
      [] OTHER -> schema

SchemaInit ==
    /\ sch_pc = "none"
    /\ sch_input = ScalarLeaf
    /\ sch_force = FALSE
    /\ sch_first = ScalarLeaf
    /\ sch_force2 = FALSE
    /\ sch_schema = ScalarLeaf

\* partialize_schema(&mut schema, force_partial) on a generated schema
Partialize ==
    /\ sch_pc = "none"
    /\ \E t \in SchemasUpTo(MaxDepth), f \in BOOLEAN :
        /\ sch_pc' = "once"
        /\ sch_input' = t
        /\ sch_force' = f
        /\ sch_first' = partialize_schema(t, f)
        /\ sch_schema' = partialize_schema(t, f)
        /\ UNCHANGED sch_force2

\* partialize_schema(&mut schema, force_partial) on the tree it has updated
PartializeAgain ==
    /\ sch_pc = "once"
    /\ \E f \in BOOLEAN :
        /\ sch_pc' = "twice"
        /\ sch_force2' = f
        /\ sch_schema' = partialize_schema(sch_schema, f)
        /\ UNCHANGED <<sch_input, sch_force, sch_first>>

SchemaNext == Partialize \/ PartializeAgain

(***************************************************************************)
(* Specifications: every behaviour starts before any call; each            *)
(* specification takes the steps of one component                          *)
(***************************************************************************)
Init ==
    /\ SourceInit
    /\ MergeInit
    /\ FinalizeInit
    /\ ParserInit
    /\ ValidateInit
    /\ ExtendsInit
    /\ SchemaInit

Next == SourceNext /\ UNCHANGED <<mrgVars, finVars, prsVars, valVars, extVars, schVars>>
Spec == Init /\ [][Next]_vars

NextMerge == MergeNext /\ UNCHANGED <<srcVars, finVars, prsVars, valVars, extVars, schVars>>
SpecMerge == Init /\ [][NextMerge]_vars

NextFinalize == FinalizeNext /\ UNCHANGED <<srcVars, mrgVars, prsVars, valVars, extVars, schVars>>
SpecFinalize == Init /\ [][NextFinalize]_vars

NextParser == ParserNext /\ UNCHANGED <<srcVars, mrgVars, finVars, valVars, extVars, schVars>>
SpecParser == Init /\ [][NextParser]_vars

NextValidate == ValidateNext /\ UNCHANGED <<srcVars, mrgVars, finVars, prsVars, extVars, schVars>>
SpecValidate == Init /\ [][NextValidate]_vars

NextExtends == ExtendsNext /\ UNCHANGED <<srcVars, mrgVars, finVars, prsVars, valVars, schVars>>
SpecExtends == Init /\ [][NextExtends]_vars

NextSchema == SchemaNext /\ UNCHANGED <<srcVars, mrgVars, finVars, prsVars, valVars, extVars>>
SpecSchema == Init /\ [][NextSchema]_vars

(***************************************************************************)
(* Claims about Source                                                     *)
(***************************************************************************)
\* the prefixes and extensions the classification is stated with
UrlLikeValue(v) ==
    StartsWith(v, S_https) \/ StartsWith(v, S_http) \/ StartsWith(v, S_www)

FileLikeValue(v) ==
    \/ \E p \in {S_file, S_slash, S_bslash, S_dot} : StartsWith(v, p)
    \/ \E i \in 1..Len(v) : v[i] \in {"/", "\\"}
    \/ \E e \in {S_json, S_toml, S_yaml, S_yml} : EndsWith(v, e)

IsFileResult(r) == r.kind = "Ok" /\ r.source.type = "File"
IsFileError(r)  == r.kind = "Err" /\ r.error \in {"ExtendsFromParentFileOnly", "InvalidFile"}

\* C1: Source::new classifies its value in priority order, first match wins:
\* a URL-like value is decided by Url construction alone; otherwise a
\* file-like value yields a File source or a file error; otherwise the
\* result is Ok(Code{code: value}).
C1_ClassificationOrder ==
    src_call = "new" =>
        IF UrlLikeValue(value)
        THEN /\ src_result \in {Ok(SourceUrl(value)), Err("HttpsOnly")}
             /\ \A p \in Parents : Source_new(value, p) = src_result
        ELSE IF FileLikeValue(value)
        THEN IsFileResult(src_result) \/ IsFileError(src_result)
        ELSE src_result = Ok(SourceCode(value))

\* C2: Url construction succeeds exactly when the url starts with "https://":
\* every Url source returned by Source::url or Source::new holds such a url,
\* and an "http://" or bare "www" value fails with HttpsOnly, for every parent.
C2_HttpsOnly ==
    /\ (src_result.kind = "Ok" /\ src_result.source.type = "Url")
          => StartsWith(src_result.source.payload, S_https)
    /\ src_call = "url"
          => (src_result.kind = "Ok" <=> StartsWith(value, S_https))
    /\ (src_call \in {"new", "url"} /\ StartsWith(value, S_https))
          => src_result = Ok(SourceUrl(value))
    /\ (src_call \in {"new", "url"}
          /\ (StartsWith(value, S_http) \/ StartsWith(value, S_www)))
          => src_result = Err("HttpsOnly")

\* an "http://" value extended from a File parent was rejected
C2_Witness ==
    /\ src_call = "new"
    /\ parent_source.type = "File"
    /\ StartsWith(value, S_http)
    /\ src_result = Err("HttpsOnly")

\* the path a file-like value names: the value without a leading "file://"
PathOfValue(v) == IF StartsWith(v, S_file) THEN SubSeq(v, Len(S_file) + 1, Len(v)) ELSE v

\* the directory of a path: everything before its last separator
parent_directory(p) ==
    LET seps == {i \in 1..Len(p) : p[i] = "/"}
    IN  IF seps = {} THEN S_empty
        ELSE LET last == CHOOSE i \in seps : \A j \in seps : j <= i
             IN  IF last = 1 THEN S_slash ELSE SubSeq(p, 1, last - 1)

\* C3: for a relative (non-rooted) file-like value v, a File{path: p} parent
\* gives File{path: parent_directory(p) joined with v}, and a parent that is
\* present but not a File gives the ExtendsFromParentFileOnly error.
C3_RelativeToParentFile ==
    ( /\ src_call = "new"
      /\ ~UrlLikeValue(value)
      /\ FileLikeValue(value)
      /\ ~StartsWith(PathOfValue(value), S_slash)
      /\ parent_source # NoSource )
    => IF parent_source.type = "File"
       THEN src_result =
              Ok(SourceFile(join(parent_directory(parent_source.payload), PathOfValue(value))))
       ELSE src_result = Err("ExtendsFromParentFileOnly")

(***************************************************************************)
(* Claims about merging one setting                                        *)
(***************************************************************************)
\* what the policy of the call returns for (prev, next, context)
PolicyAnswer ==
    IF mrg_call = "merge_setting"
    THEN ApplyMerger(mrg_merger, mrg_prev[1], mrg_next[1], mrg_context)
    ELSE merge_partial(mrg_prev[1], mrg_next[1], mrg_context)

\* C4: merging one setting is right-biased: with both sides present the
\* result is what the policy returns for (prev, next, context); with one
\* side present it is that side; with none it is absent; and the policy is
\* invoked in the both-present case only.
C4_RightBiased ==
    mrg_call # "none" =>
        /\ (mrg_prev # None /\ mrg_next # None) =>
              /\ mrg_result = PolicyAnswer
              /\ mrg_invoked = << <<mrg_prev[1], mrg_next[1], mrg_context>> >>
        /\ (mrg_prev # None /\ mrg_next = None) =>
              (mrg_result = OkOpt(mrg_prev) /\ mrg_invoked = <<>>)
        /\ (mrg_prev = None /\ mrg_next # None) =>
              (mrg_result = OkOpt(mrg_next) /\ mrg_invoked = <<>>)
        /\ (mrg_prev = None /\ mrg_next = None) =>
              (mrg_result = OkOpt(None) /\ mrg_invoked = <<>>)

\* both sides present under a keep-left policy: the policy, not the
\* right-hand side, decided
C4_Witness ==
    /\ mrg_call = "merge_setting"
    /\ mrg_merger = "preserve"
    /\ mrg_prev = Some(<<1>>)
    /\ mrg_next = Some(<<2>>)
    /\ mrg_result = OkOpt(Some(<<1>>))
    /\ Len(mrg_invoked) = 1

(***************************************************************************)
(* Claims about finalize                                                   *)
(***************************************************************************)
FinalizeOrder == <<"default_values", "merge_self", "merge_env", "finalize_stmts">>

IsPrefix(s, t) == Len(s) <= Len(t) /\ SubSeq(t, 1, Len(s)) = s

\* the layers of a finished, successful finalize
FinDone     == fin_pc = "done" /\ fin_result.kind = "Ok"
FinDefaults == default_values(fin_schema, fin_context).partial
FinEnvs     == env_values(fin_env).partial

\* the value of setting f by precedence: environment, else explicit, else default
ByPrecedence(f) ==
    IF FinEnvs[f] # None THEN FinEnvs[f]
    ELSE IF fin_self[f] # None THEN fin_self[f]
    ELSE FinDefaults[f]

\* finalize made its calls in the fixed order, and returned Ok only after all
FinalizeInOrder ==
    /\ \/ IsPrefix(fin_log, FinalizeOrder)
       \/ fin_log = <<"default_values", "merge_self", "env_values">>
    /\ FinDone => fin_log = FinalizeOrder

FailureOffset ==
    IF prs_failure.loc.at = "range" THEN prs_failure.loc.start
    ELSE from_location(prs_content, prs_failure.loc.line, prs_failure.loc.column)

\* C6: every span of a ParserError, for every format and failure stage, is
\* absent, or has length zero and the byte offset of the failure.
C6_ZeroLengthSpans ==
    prs_result.kind = "Err" =>
        \/ prs_result.span = None
        \/ /\ prs_result.span[1].length = 0
           /\ prs_result.span[1].offset = FailureOffset

\* the same for the stages that go through create_span only (JSON decode,
\* YAML pass 1 and pass 2): there the spans are zero-length
SpansOfCreateSpanStages ==
    (prs_result.kind = "Err" /\ prs_format \in {"json", "yaml"}
        /\ prs_failure.stage # "apply_merge")
    => \/ prs_result.span = None
       \/ /\ prs_result.span[1].length = 0
          /\ prs_result.span[1].offset = FailureOffset

(***************************************************************************)
(* Claims about validate_with_path                                         *)
(***************************************************************************)
\* the paths of the invalid leaves of the validated config
InvalidLeafPaths ==
    {Append(val_path, f) : f \in {f \in {"a", "b"} : val_self[f] \in {Some(0)}}}
    \cup (IF val_self.n = None THEN {}
          ELSE {val_path \o <<"n", f>> :
                   f \in {f \in {"a", "b"} : val_self.n[1][f] \in {Some(0)}}})

\* the leaf errors of a result, with the nested errors opened
RECURSIVE LeafErrorPaths(_)
LeafErrorPaths(errors) ==
    IF errors = <<>> THEN <<>>
    ELSE (IF Head(errors).kind = "setting"
          THEN <<Head(errors).path>>
          ELSE LeafErrorPaths(Head(errors).errors))
         \o LeafErrorPaths(Tail(errors))

SeqRange(q) == {q[i] : i \in 1..Len(q)}

\* C7: validate_with_path evaluates the validation statement of every
\* setting, accumulates every failure, and returns Err with all of them and
\* the given path exactly when there is at least one; two independent
\* invalid leaves give two path-qualified errors.
C7_AllFailuresCollected ==
    val_call = "validate_with_path" =>
        /\ val_evaluated = <<"a", "b", "n">>
        /\ val_result.kind = "Err" <=> InvalidLeafPaths # {}
        /\ val_result.kind = "Err" => val_result.path = val_path
        /\ Len(LeafErrorPaths(val_result.errors)) = Cardinality(InvalidLeafPaths)
        /\ SeqRange(LeafErrorPaths(val_result.errors)) = InvalidLeafPaths

\* two independent invalid leaves, one at the root and one in the nested
\* config, gave two path-qualified errors
C7_Witness ==
    /\ val_call = "validate_with_path"
    /\ val_path = <<"root">>
    /\ val_self.a = Some(0)
    /\ val_self.b = Some(1)
    /\ val_self.n = Some([a |-> None, b |-> Some(0)])
    /\ LeafErrorPaths(val_result.errors) = << <<"root", "a">>, <<"root", "n", "b">> >>

(***************************************************************************)
(* Claims about extends_from                                               *)
(***************************************************************************)
Extendables == {i \in DOMAIN ext_settings : ext_settings[i].extendable}
TheExtendable == CHOOSE i \in Extendables : TRUE

\* how a supported inner type is returned
ReturnedAs(inner) ==
    CASE inner = "String" -> "String"
      [] inner \in {"Vec<String>", "Vec < String >"} -> "List"
      [] OTHER -> "Itself"

SupportedInner ==
    {"String", "Vec<String>", "Vec < String >", "ExtendsFrom", "schematic::ExtendsFrom",
     "schematic :: ExtendsFrom"}

\* more than one extendable setting aborts code generation, so a generated
\* extends_from reads at most one field; with no extendable setting it
\* returns None
ExtendsAtMostOne ==
    /\ (ext_pc # "none" /\ Cardinality(Extendables) > 1) => ext_pc = "aborted"
    /\ ext_pc \in {"generated", "called"} =>
          /\ Cardinality(Extendables) <= 1
          /\ Len(ext_code.reads) <= 1
    /\ (ext_pc = "called" /\ Extendables = {}) => ext_result = None

\* C8 as claimed: more than one extendable setting is rejected at code
\* generation; with exactly one, the generated extends_from returns that
\* field's value as ExtendsFrom when it is present and None when it is
\* absent; with none it returns None.
C8_OneExtendableReturned ==
    /\ ExtendsAtMostOne
    /\ (ext_pc = "called" /\ Cardinality(Extendables) = 1) =>
          IF ext_self[TheExtendable] # None
          THEN /\ ext_result # None
               /\ ext_result[1].value = ext_self[TheExtendable][1]
          ELSE ext_result = None

\* what the code does with one extendable setting: a supported inner type
\* (String, Vec<String> or ExtendsFrom) is returned as claimed; another
\* inner type aborts code generation; a value type with no inner type is
\* skipped without a diagnostic, and extends_from returns None whether or
\* not the field is present.
C8_OneSupportedExtendableReturned ==
    /\ ExtendsAtMostOne
    /\ (ext_pc # "none" /\ Cardinality(Extendables) = 1) =>
          LET inner == ext_settings[TheExtendable].inner
          IN  /\ inner \notin SupportedInner \cup {"no_inner"} <=> ext_pc = "aborted"
              /\ (ext_pc = "called" /\ inner = "no_inner") => ext_result = None
              /\ (ext_pc = "called" /\ inner \in SupportedInner) =>
                    IF ext_self[TheExtendable] # None
                    THEN ext_result =
                           Some(AsExtendsFrom(ReturnedAs(inner), ext_self[TheExtendable][1]))
                    ELSE ext_result = None

\* the one extendable setting, a Vec<String> declared second, was present
\* and was returned as a List
ExtendableListReturned ==
    /\ ext_pc = "called"
    /\ Len(ext_settings) = 2
    /\ Extendables = {2}
    /\ ext_settings[2].inner = "Vec<String>"
    /\ ext_self[2] = Some("v1")
    /\ ext_result = Some(AsExtendsFrom("List", "v1"))

(***************************************************************************)
(* Claims about partialize_schema                                          *)
(***************************************************************************)
\* the positions of a schema tree, as sequences of child indices
RECURSIVE AllPaths(_)
AllPaths(t) ==
    {<<>>} \cup UNION {{<<i>> \o q : q \in AllPaths(t.children[i])} : i \in DOMAIN t.children}

RECURSIVE NodeAt(_, _)
NodeAt(t, path) ==
    IF path = <<>> THEN t ELSE NodeAt(t.children[Head(path)], Tail(path))

\* whether the node at path is visited with force_partial = true: the root
\* is if the caller says so, any other node if it is a direct field of a
\* struct that is flagged partial or is itself visited with true
RECURSIVE VisitedWithForce(_, _, _)
VisitedWithForce(t, force, path) ==
    IF path = <<>> THEN force
    ELSE VisitedWithForce(t.children[Head(path)],
                          t.ty = "Struct" /\ (t.partial \/ force), Tail(path))

\* a type name with the "Partial" prefix, put once
Prefixed(name) ==
    IF name = None \/ (name # None /\ StartsWith(name[1], S_Partial))
    THEN name
    ELSE Some(S_Partial \o name[1])

SameFlags(in, out) ==
    \A i \in DOMAIN in.children :
        /\ out.children[i].optional = in.children[i].optional
        /\ out.children[i].nullable = in.children[i].nullable

AllOptionalNullable(out) ==
    \A i \in DOMAIN out.children : out.children[i].optional /\ out.children[i].nullable

\* what the first call made of the node at path
PartializedAt(path) ==
    LET in     == NodeAt(sch_input, path)
        out    == NodeAt(sch_first, path)
        forced == VisitedWithForce(sch_input, sch_force, path)
    IN  /\ out.ty = in.ty
        /\ out.partial = in.partial
        /\ DOMAIN out.children = DOMAIN in.children
        /\ CASE in.ty = "Struct" ->
                  IF in.partial \/ forced
                  THEN out.name = Prefixed(in.name) /\ AllOptionalNullable(out)
                  ELSE out.name = in.name /\ SameFlags(in, out)
             [] in.ty = "Union" ->
                  /\ out.name = (IF in.partial \/ forced THEN Prefixed(in.name) ELSE in.name)
                  /\ SameFlags(in, out)
             [] OTHER ->
                  /\ out.name = in.name
                  /\ SameFlags(in, out)

\* C9: partialize_schema transforms a Struct (prefixes its name, marks
\* every field optional and nullable) iff it is flagged partial or visited
\* with force_partial = true; true is handed only to the direct fields of a
\* transformed struct, false to array items, object keys and values, tuple
\* items, union variants and the fields of an untransformed struct, which
\* keep their optional flag; a Union is renamed iff flagged partial or
\* visited with true; scalar leaves are unchanged.
C9_TransformRules ==
    sch_pc # "none" => \A path \in AllPaths(sch_input) : PartializedAt(path)

\* a named struct that is not flagged partial, visited with true, was
\* renamed, and its field, a named union not flagged partial, was made
\* optional and renamed, while the union's variant kept its flags
C9_Witness ==
    /\ sch_pc = "once"
    /\ sch_force
    /\ sch_input.ty = "Struct" /\ ~sch_input.partial /\ sch_input.name = Some(<<"A">>)
    /\ sch_input.children[1].ty = "Union" /\ ~sch_input.children[1].partial
    /\ sch_input.children[1].name = Some(<<"A">>)
    /\ ~sch_input.children[1].optional
    /\ sch_first.name = Some(S_Partial \o <<"A">>)
    /\ sch_first.children[1].optional
    /\ sch_first.children[1].name = Some(S_Partial \o <<"A">>)
    /\ ~sch_first.children[1].children[1].optional

\* the names of a tree
NamesOf(t) == {NodeAt(t, path).name : path \in AllPaths(t)}

\* C10: after partialize_schema every struct or union that is flagged
\* partial or was visited with force_partial = true has its type name
\* prefixed with "Partial" and, for a struct, every field optional; the
\* prefix is put at most once, and a second call on the updated tree (with
\* the same force_partial, or with false) leaves it unchanged; with any
\* force_partial it re-prefixes no name.
C10_PrefixedOnceAndStable ==
    /\ sch_pc # "none" =>
          \A path \in AllPaths(sch_first) :
              LET out == NodeAt(sch_first, path)
              IN  /\ ( /\ out.ty \in {"Struct", "Union"}
                       /\ out.partial \/ VisitedWithForce(sch_input, sch_force, path) )
                      => /\ out.name # None => StartsWith(out.name[1], S_Partial)
                         /\ out.ty = "Struct" =>
                               \A i \in DOMAIN out.children : out.children[i].optional
                  /\ out.name # None =>
                        ~StartsWith(out.name[1], S_Partial \o S_Partial)
    /\ sch_pc = "twice" =>
          /\ (sch_force2 => sch_force) => sch_schema = sch_first
          /\ \A path \in AllPaths(sch_first) :
                LET name == NodeAt(sch_first, path).name
                IN  (name # None /\ StartsWith(name[1], S_Partial))
                       => NodeAt(sch_schema, path).name = name

\* a partial struct named "A" became "PartialA", and the second call left
\* the tree as the first one made it
C10_Witness ==
    /\ sch_pc = "twice"
    /\ sch_force2 = sch_force
    /\ sch_input.ty = "Struct" /\ sch_input.partial /\ sch_input.name = Some(<<"A">>)
    /\ sch_first.name = Some(S_Partial \o <<"A">>)
    /\ sch_first # sch_input
    /\ sch_schema = sch_first

(***************************************************************************)
(* Claims about merging two partials                                       *)
(***************************************************************************)
\* no setting holds a value in both partials
NoOverlap(a, b) == \A f \in Settings : a[f] = None \/ b[f] = None

\* the setting-wise union of two partials that do not overlap
UnionOf(a, b) == [f \in Settings |-> IF a[f] # None THEN a[f] ELSE b[f]]

\* C11: for partial configs A and B such that no setting holds a value in
\* both, merging B into A and merging A into B give the same result, the
\* setting-wise union of A and B.
C11_DisjointMergeCommutes ==
    (mrg_call = "merge" /\ NoOverlap(mrg_a, mrg_b)) =>
        /\ mrg_ab = mrg_ba
        /\ mrg_ab = OkPartial(UnionOf(mrg_a, mrg_b))

\* A holds only setting a, B only setting b (whose policy concatenates),
\* and both merges gave the partial that holds the two
C11_Witness ==
    /\ mrg_call = "merge"
    /\ mrg_policy["b"] = "append"
    /\ mrg_a = [f \in Settings |-> IF f = "a" THEN Some(<<1>>) ELSE None]
    /\ mrg_b = [f \in Settings |-> IF f = "b" THEN Some(<<2>>) ELSE None]
    /\ mrg_ab = OkPartial([f \in Settings |-> IF f = "a" THEN Some(<<1>>) ELSE Some(<<2>>)])
    /\ mrg_ba = mrg_ab

ParsedVariants == {"Code", "File", "Url"}

\* C13: Source::new is total: for every value and every parent source
\* (absent, or any variant, including a File parent whose path is a bare
\* root or has no parent directory) it returns Ok(source) or Err(error) and
\* never aborts; every source it returns is a Code, File or Url, never
\* Defaults or Env.
C13_SourceNewTotal ==
    src_call = "new" =>
        /\ src_result.kind \in {"Ok", "Err"}
        /\ src_result.kind = "Ok" => src_result.source.type \in ParsedVariants

\* the part that holds: whatever Source::new returns is a Code, File or Url
SourceNewReturnsParsedVariants ==
    (src_call = "new" /\ src_result.kind = "Ok")
        => src_result.source.type \in ParsedVariants

====
